---- MODULE Spec2Model ----
(***************************************************************************)
(* The subscription calendar widget of MoviePilot-Plugins                  *)
(* (frontend/subscribecal): the timeline loader of Dashboard.vue           *)
(* (fetchTimeLineGroups, parseUTCDateTime, getLocalISODateString,          *)
(* getBaseIndex, getUniqueGroups, displayedGroups, onMounted).             *)
(* With it: the sort of one card (sortedEvents of cards/CalendarEvent.vue)  *)
(* and the loader that takes a date-keyed mapping (the version of the      *)
(* widget kept in cards/CalendarEvent.vue, lines 412-450).                 *)
(*                                                                         *)
(* Instants are whole seconds since 1970-01-01T00:00:00Z (the code's       *)
(* milliseconds divided by 1000: every timestamp of the format has whole   *)
(* seconds).  A text is a sequence of one-character strings.  A date key   *)
(* "YYYY-MM-DD" is the triple <<YYYY, MM, DD>>.                            *)
(***************************************************************************)
EXTENDS Integers, Sequences, FiniteSets, Bags, TLC

VARIABLES
    timeLineGroups,   \* Dashboard.vue:23   the stored groups, in stored order
    loadedRange,      \* Dashboard.vue:31   [before, after]
    loading,          \* Dashboard.vue:26
    userScrolled,     \* Dashboard.vue:27
    fixedBaseIndex,   \* Dashboard.vue:28   0-based, -1 = not captured
    inflight,         \* the fetchTimeLineGroups calls suspended at the await (line 38)
    mounted,          \* whether onMounted has run (line 213)
    now,              \* the clock read by new Date() (lines 125, 143)
    tzOffset,         \* Date.prototype.getTimezoneOffset(), minutes (line 126)
    backend,          \* the events the fetch collaborator holds, in its order
    issued,           \* history: the calls made so far
    completed,        \* history: [before, after], the largest arguments of the calls
                      \*   that ran to the end of the try block
    lastReply,        \* history: what the last settled fetch settled with (kept by
                      \*   SpecBatch, SpecMerge and SpecMapping)
    lastSettle,       \* history: the call that settled last and how it met the stored
                      \*   state (kept by SpecMerge)
    issuedAt,         \* history: loadedRange as it was when each suspended call was
                      \*   issued (kept by SpecMerge)
    serial,           \* history: the stored state got by running the settled merges
                      \*   one after the other in the order they resolved (SpecMerge)
    cardItems,        \* CalendarEvent.vue:6   props.events.items of one card
    rendered          \* CalendarEvent.vue:83  the value of sortedEvents last rendered

\* The history of SpecMerge and the state of one card of the timeline
mergeHistory == <<lastSettle, issuedAt, serial>>
cardVars == <<cardItems, rendered>>

vars == <<timeLineGroups, loadedRange, loading, userScrolled, fixedBaseIndex,
          inflight, mounted, now, tzOffset, backend, issued, completed, lastReply,
          lastSettle, issuedAt, serial, cardItems, rendered>>

----------------------------------------------------------------------------
(* Bounds of the model *)

\* How many times the day rolls over during a session.
MaxTicks == 1

\* How many items the group handed to one card holds at most.
MaxCard == 3

----------------------------------------------------------------------------
(* JavaScript values *)

Null == [kind |-> "null"]
Num(n) == [kind |-> "number", n |-> n]
Str(chars) == [kind |-> "string", s |-> chars]
DateObj(t) == [kind |-> "Date", t |-> t]

SecondsPerDay == 24 * 60 * 60

Max(a, b) == IF a >= b THEN a ELSE b
Min(a, b) == IF a <= b THEN a ELSE b

\* String.prototype.slice(i, j) for 0 <= i <= j: characters i .. j-1 (0-based)
Slice(s, i, j) == SubSeq(s, i + 1, Min(j, Len(s)))

DigitChars == {"0", "1", "2", "3", "4", "5", "6", "7", "8", "9"}

DigitVal(c) ==
    CASE c = "0" -> 0 [] c = "1" -> 1 [] c = "2" -> 2 [] c = "3" -> 3
      [] c = "4" -> 4 [] c = "5" -> 5 [] c = "6" -> 6 [] c = "7" -> 7
      [] c = "8" -> 8 [] c = "9" -> 9

\* parseInt(s, 10) of a text of digits
RECURSIVE ParseInt(_)
ParseInt(s) ==
    IF s = <<>> THEN 0
    ELSE 10 * ParseInt(SubSeq(s, 1, Len(s) - 1)) + DigitVal(s[Len(s)])

\* Mutant: the pattern without its end anchor, /^\d{8}T\d{6}Z/
RegexTest_NoEndAnchor(s) ==
    /\ Len(s) >= 16
    /\ \A i \in 1..8 : s[i] \in DigitChars
    /\ s[9] = "T"
    /\ \A i \in 10..15 : s[i] \in DigitChars
    /\ s[16] = "Z"

\* /^\d{8}T\d{6}Z$/.test(s)
RegexTest(s) ==
    /\ Len(s) = 16
    /\ \A i \in 1..8 : s[i] \in DigitChars
    /\ s[9] = "T"
    /\ \A i \in 10..15 : s[i] \in DigitChars
    /\ s[16] = "Z"

\* Days since 1970-01-01 of the civil date y-m-d (m in 1..12), proleptic Gregorian
DaysFromCivil(y, m, d) ==
    LET yy  == IF m <= 2 THEN y - 1 ELSE y
        era == yy \div 400
        yoe == yy - era * 400
        mp  == IF m > 2 THEN m - 3 ELSE m + 9
        doy == (153 * mp + 2) \div 5 + d - 1
        doe == yoe * 365 + yoe \div 4 - yoe \div 100 + doy
    IN  era * 146097 + doe - 719468

\* The civil date <<y, m, d>> of a day number
CivilFromDays(z) ==
    LET zz  == z + 719468
        era == zz \div 146097
        doe == zz - era * 146097
        yoe == (doe - doe \div 1460 + doe \div 36524 - doe \div 146096) \div 365
        doy == doe - (365 * yoe + yoe \div 4 - yoe \div 100)
        mp  == (5 * doy + 2) \div 153
        d   == doy - (153 * mp + 2) \div 5 + 1
        m   == IF mp < 10 THEN mp + 3 ELSE mp - 9
        y   == yoe + era * 400
    IN  <<IF m <= 2 THEN y + 1 ELSE y, m, d>>

\* Date.UTC(year, month, day, hour, minute, second) / 1000; month is zero-based,
\* fields out of range carry over, years 0..99 mean 1900..1999
DateUTC(year, month, day, hour, minute, second) ==
    LET yr == IF year >= 0 /\ year <= 99 THEN 1900 + year ELSE year
        ym == yr + (month \div 12)
        mn == month % 12
    IN  (DaysFromCivil(ym, mn + 1, 1) + day - 1) * SecondsPerDay
          + hour * 3600 + minute * 60 + second

\* parseUTCDateTime: the instant, or Null when the text is not YYYYMMDDTHHMMSSZ
parseUTCDateTime(v) ==
    IF v.kind /= "string" \/ ~RegexTest(v.s) THEN Null
    ELSE LET dateStr == v.s
             year   == ParseInt(Slice(dateStr, 0, 4))
             month  == ParseInt(Slice(dateStr, 4, 6)) - 1
             day    == ParseInt(Slice(dateStr, 6, 8))
             hour   == ParseInt(Slice(dateStr, 9, 11))
             minute == ParseInt(Slice(dateStr, 11, 13))
             second == ParseInt(Slice(dateStr, 13, 15))
         IN  DateObj(DateUTC(year, month, day, hour, minute, second))

\* Mutant: the day of the instant in UTC, new Date().toISOString().split('T')[0]
getLocalISODateString_UTC(t, offsetMin) == CivilFromDays(t \div SecondsPerDay)

\* getLocalISODateString(date), for a viewer whose getTimezoneOffset() is offsetMin:
\* new Date(date.getTime() - offset).toISOString().slice(0, 10)
getLocalISODateString(t, offsetMin) ==
    CivilFromDays((t - offsetMin * 60) \div SecondsPerDay)

\* new Date("YYYY-MM-DD").getTime() / 1000: a date-only text is UTC midnight
DateOfKey(key) == DaysFromCivil(key[1], key[2], key[3]) * SecondsPerDay

\* new Date(today.getFullYear(), today.getMonth(), today.getDate()).getTime() / 1000:
\* the viewer's local midnight of the day of instant t
LocalMidnight(t, offsetMin) ==
    ((t - offsetMin * 60) \div SecondsPerDay) * SecondsPerDay + offsetMin * 60

----------------------------------------------------------------------------
(* The events the fetch collaborator may return *)

\* "20250528T100000Z": 2025-05-28 for every viewer from UTC-10 to UTC+13
Stamp0528 ==
    <<"2","0","2","5","0","5","2","8","T","1","0","0","0","0","0","Z">>
\* "20250531T100000Z"
Stamp0531 ==
    <<"2","0","2","5","0","5","3","1","T","1","0","0","0","0","0","Z">>
\* "20250531T160000Z": the next local day for a UTC+8 viewer
Stamp0531Late ==
    <<"2","0","2","5","0","5","3","1","T","1","6","0","0","0","0","Z">>
\* "20250601T160000Z"
Stamp0601Late ==
    <<"2","0","2","5","0","6","0","1","T","1","6","0","0","0","0","Z">>
\* "2025-06-03": a date that is not in the fixed format
StampDateOnly ==
    <<"2","0","2","5","-","0","6","-","0","3">>

\* A TimeLineItem as the collaborator sends it (types/index.ts:1-33), cut to the
\* fields the timeline reads; id is the subscription's id, shared by its episodes
RawEvent(id, dtstart, dtend, episode) ==
    [id |-> id, dtstart |-> dtstart, dtend |-> dtend, episode |-> episode]

Ev0528 == RawEvent(4, Str(Stamp0528), Str(Stamp0531), Null)
Ev0531 == RawEvent(6, Str(Stamp0531), Str(Stamp0531Late), Null)
Ev0531Late == RawEvent(8, Str(Stamp0531Late), Str(Stamp0601Late), Null)
EvMalformed == RawEvent(2, Str(StampDateOnly), Str(Stamp0601Late), Null)

\* "20250531T100000Z+0800": the fixed format with an offset after it
StampSuffixed ==
    <<"2","0","2","5","0","5","3","1","T","1","0","0","0","0","0","Z",
      "+","0","8","0","0">>

\* Two episodes of subscription 6 on one day, the later episode sent first; the
\* second has a dtend that is not in the fixed format
EvEpisode3 == RawEvent(6, Str(Stamp0531), Str(Stamp0531Late), Num(3))
EvEpisode1 == RawEvent(6, Str(Stamp0531), Str(StampDateOnly), Num(1))
EvSuffixed == RawEvent(9, Str(StampSuffixed), Str(Stamp0601Late), Null)
\* An event that carries no dtstart
EvNoStart == RawEvent(10, Null, Null, Null)

\* The collaborator's events of SpecBatch
BackendItems ==
    <<EvEpisode3, EvMalformed, EvEpisode1, Ev0531Late, EvSuffixed, EvNoStart>>

\* The collaborator's events of the widget's session, not in date order
BackendDates == <<Ev0531, EvMalformed, Ev0528>>

\* The sub-lists of a list: any selection of its elements, in its order
RECURSIVE SubLists(_)
SubLists(list) ==
    IF list = <<>> THEN {<<>>}
    ELSE LET rest == SubLists(SubSeq(list, 1, Len(list) - 1))
         IN  rest \cup {Append(l, list[Len(list)]) : l \in rest}

\* What the awaited api.get settles with: a flat list of events, or the date-keyed
\* mapping the development mock returns, or a rejection
ArrayReply(events) == [kind |-> "resolved", shape |-> "array", events |-> events]
MappingReply(entries) == [kind |-> "resolved", shape |-> "object", entries |-> entries]

\* "20250528T160000Z", "20250529T160000Z", "20250603T100000Z", "20250604T160000Z"
Stamp0528Late ==
    <<"2","0","2","5","0","5","2","8","T","1","6","0","0","0","0","Z">>
Stamp0529Late ==
    <<"2","0","2","5","0","5","2","9","T","1","6","0","0","0","0","Z">>
Stamp0603 ==
    <<"2","0","2","5","0","6","0","3","T","1","0","0","0","0","0","Z">>
Stamp0604Late ==
    <<"2","0","2","5","0","6","0","4","T","1","6","0","0","0","0","Z">>

\* The mapping of the development mock (Dashboard.vue:508-579): date key to events,
\* in the order of its keys
MockMapping ==
    << [date  |-> <<2025, 5, 28>>,
        items |-> <<RawEvent(4, Str(Stamp0528Late), Str(Stamp0529Late), Null)>>],
       [date  |-> <<2025, 5, 31>>,
        items |-> <<RawEvent(6, Str(Stamp0531Late), Str(Stamp0601Late), Null),
                    RawEvent(8, Str(Stamp0531Late), Str(Stamp0601Late), Null)>>],
       [date  |-> <<2025, 6, 3>>,
        items |-> <<RawEvent(2, Str(Stamp0603), Str(Stamp0604Late), Null)>>] >>

ObjectReply == MappingReply(MockMapping)
Rejected == [kind |-> "rejected"]

\* The responses the collaborator may give over the events it holds
Replies(events) == {ArrayReply(es) : es \in SubLists(events)} \cup {ObjectReply}

----------------------------------------------------------------------------
(* fetchTimeLineGroups *)

\* Lines 51-59: the stored item, dtstart replaced by the parsed instant and dtend by
\* its instant when it parses
FormatItem(item) ==
    LET startDate == parseUTCDateTime(item.dtstart)
        endDate   == parseUTCDateTime(item.dtend)
    IN  [item EXCEPT !.dtend = IF endDate /= Null THEN endDate ELSE @,
                     !.dtstart = startDate]

\* Mutant: an item whose id is already in the group of its date is not added
AddToGrouped_FirstIdWins(grouped, key, item) ==
    IF \E i \in DOMAIN grouped : grouped[i].date = key
    THEN [i \in DOMAIN grouped |->
            IF grouped[i].date = key
                 /\ \A j \in DOMAIN grouped[i].items : grouped[i].items[j].id /= item.id
            THEN [grouped[i] EXCEPT !.items = Append(@, item)]
            ELSE grouped[i]]
    ELSE Append(grouped, [date |-> key, items |-> <<item>>])

\* Lines 61-68: grouped.get(key).items.push(item), the Map keeping insertion order
AddToGrouped(grouped, key, item) ==
    IF \E i \in DOMAIN grouped : grouped[i].date = key
    THEN [i \in DOMAIN grouped |->
            IF grouped[i].date = key
            THEN [grouped[i] EXCEPT !.items = Append(@, item)]
            ELSE grouped[i]]
    ELSE Append(grouped, [date |-> key, items |-> <<item>>])

\* Mutant: an event is grouped only when its dtend parses as well
RECURSIVE GroupEvents_RequiresEnd(_, _)
GroupEvents_RequiresEnd(events, offsetMin) ==
    IF events = <<>> THEN <<>>
    ELSE LET n         == Len(events)
             grouped   == GroupEvents_RequiresEnd(SubSeq(events, 1, n - 1), offsetMin)
             item      == events[n]
             startDate == parseUTCDateTime(item.dtstart)
         IN  IF startDate /= Null /\ parseUTCDateTime(item.dtend) /= Null
             THEN AddToGrouped(grouped,
                               getLocalISODateString(startDate.t, offsetMin),
                               FormatItem(item))
             ELSE grouped

\* Lines 43-70: res.forEach over the response
RECURSIVE GroupEvents(_, _)
GroupEvents(events, offsetMin) ==
    IF events = <<>> THEN <<>>
    ELSE LET n         == Len(events)
             grouped   == GroupEvents(SubSeq(events, 1, n - 1), offsetMin)
             item      == events[n]
             startDate == parseUTCDateTime(item.dtstart)
         IN  IF startDate /= Null
             THEN AddToGrouped(grouped,
                               getLocalISODateString(startDate.t, offsetMin),
                               FormatItem(item))
             ELSE grouped

\* One step of the stable sort of line 74: g goes after every group not later than it
InsertByDate(sorted, g) ==
    LET k == Cardinality({i \in DOMAIN sorted :
                            DateOfKey(sorted[i].date) <= DateOfKey(g.date)})
    IN  SubSeq(sorted, 1, k) \o <<g>> \o SubSeq(sorted, k + 1, Len(sorted))

\* Lines 73-74: Array.from(grouped.values()).sort(by new Date(date).getTime())
RECURSIVE SortGroups(_)
SortGroups(groups) ==
    IF groups = <<>> THEN <<>>
    ELSE InsertByDate(SortGroups(SubSeq(groups, 1, Len(groups) - 1)),
                      groups[Len(groups)])

\* Lines 76-84: the first group of each date of the batch
RECURSIVE FilterGroups(_)
FilterGroups(groups) ==
    IF groups = <<>> THEN <<>>
    ELSE LET kept == FilterGroups(SubSeq(groups, 1, Len(groups) - 1))
             g    == groups[Len(groups)]
         IN  IF \E i \in DOMAIN kept : kept[i].date = g.date THEN kept
             ELSE Append(kept, g)

\* Lines 43-84: filteredGroups of a flat response
BatchOf(events, offsetMin) == FilterGroups(SortGroups(GroupEvents(events, offsetMin)))

\* Mutant: each threshold takes the call's value whether or not it advances
InsertBatch_LastCallWins(groups, range, beforeDays, afterDays, filteredGroups) ==
    LET past    == beforeDays > range.before
        future  == afterDays > range.after
        groups1 == IF past THEN filteredGroups \o groups ELSE groups
        groups2 == IF future THEN groups1 \o filteredGroups ELSE groups1
    IN  [groups |-> groups2,
         range  |-> [before |-> beforeDays, after |-> afterDays]]

\* Mutant: the future threshold is not recorded (line 95 left out)
InsertBatch_ForgetsAfter(groups, range, beforeDays, afterDays, filteredGroups) ==
    LET past    == beforeDays > range.before
        future  == afterDays > range.after
        groups1 == IF past THEN filteredGroups \o groups ELSE groups
        groups2 == IF future THEN groups1 \o filteredGroups ELSE groups1
    IN  [groups |-> groups2,
         range  |-> [before |-> IF past THEN beforeDays ELSE range.before,
                     after  |-> range.after]]

\* Mutant: the future side is inserted when afterDays reaches the threshold (>=)
InsertBatch_FutureNotStrict(groups, range, beforeDays, afterDays, filteredGroups) ==
    LET past    == beforeDays > range.before
        future  == afterDays >= range.after
        groups1 == IF past THEN filteredGroups \o groups ELSE groups
        groups2 == IF future THEN groups1 \o filteredGroups ELSE groups1
    IN  [groups |-> groups2,
         range  |-> [before |-> IF past THEN beforeDays ELSE range.before,
                     after  |-> IF future THEN afterDays ELSE range.after]]

\* Mutant: the batch is pushed whether or not afterDays advances (line 92 left out)
InsertBatch_AlwaysPush(groups, range, beforeDays, afterDays, filteredGroups) ==
    LET past    == beforeDays > range.before
        future  == afterDays > range.after
        groups1 == IF past THEN filteredGroups \o groups ELSE groups
    IN  [groups |-> groups1 \o filteredGroups,
         range  |-> [before |-> IF past THEN beforeDays ELSE range.before,
                     after  |-> IF future THEN afterDays ELSE range.after]]

\* Mutant: the past side is inserted when beforeDays reaches the threshold (>=)
InsertBatch_PastNotStrict(groups, range, beforeDays, afterDays, filteredGroups) ==
    LET past    == beforeDays >= range.before
        future  == afterDays > range.after
        groups1 == IF past THEN filteredGroups \o groups ELSE groups
        groups2 == IF future THEN groups1 \o filteredGroups ELSE groups1
    IN  [groups |-> groups2,
         range  |-> [before |-> IF past THEN beforeDays ELSE range.before,
                     after  |-> IF future THEN afterDays ELSE range.after]]

\* Lines 86-96: unshift when beforeDays advances, push when afterDays advances
InsertBatch(groups, range, beforeDays, afterDays, filteredGroups) ==
    LET past    == beforeDays > range.before
        future  == afterDays > range.after
        groups1 == IF past THEN filteredGroups \o groups ELSE groups
        groups2 == IF future THEN groups1 \o filteredGroups ELSE groups1
    IN  [groups |-> groups2,
         range  |-> [before |-> IF past THEN beforeDays ELSE range.before,
                     after  |-> IF future THEN afterDays ELSE range.after]]

\* Mutant: the thresholds are recorded before the fetch is awaited, so a failed call
\* advances them
fetchTimeLineGroups_Advances(groups, range, beforeDays, afterDays, reply, offsetMin) ==
    IF reply.kind = "rejected" \/ reply.shape /= "array"
    THEN [groups  |-> groups,
          range   |-> [before |-> Max(range.before, beforeDays),
                       after  |-> Max(range.after, afterDays)],
          outcome |-> IF reply.kind = "rejected" THEN "rejected" ELSE "raised"]
    ELSE LET merged == InsertBatch(groups, range, beforeDays, afterDays,
                                   BatchOf(reply.events, offsetMin))
         IN  [groups |-> merged.groups, range |-> merged.range, outcome |-> "ok"]

\* Mutant: a response without a parsable event throws (the first group is read)
fetchTimeLineGroups_EmptyThrows(groups, range, beforeDays, afterDays, reply, offsetMin) ==
    IF reply.kind = "rejected"
    THEN [groups |-> groups, range |-> range, outcome |-> "rejected"]
    ELSE IF reply.shape /= "array" \/ BatchOf(reply.events, offsetMin) = <<>>
    THEN [groups |-> groups, range |-> range, outcome |-> "raised"]
    ELSE LET merged == InsertBatch(groups, range, beforeDays, afterDays,
                                   BatchOf(reply.events, offsetMin))
         IN  [groups |-> merged.groups, range |-> merged.range, outcome |-> "ok"]

\* Lines 36-100: the stored state after the call settles.  A rejected fetch, and a
\* response without forEach (line 45 throws), end in the catch of line 97.
fetchTimeLineGroups(groups, range, beforeDays, afterDays, reply, offsetMin) ==
    IF reply.kind = "rejected"
    THEN [groups |-> groups, range |-> range, outcome |-> "rejected"]
    ELSE IF reply.shape /= "array"
    THEN [groups |-> groups, range |-> range, outcome |-> "raised"]
    ELSE LET merged == InsertBatch(groups, range, beforeDays, afterDays,
                                   BatchOf(reply.events, offsetMin))
         IN  [groups |-> merged.groups, range |-> merged.range, outcome |-> "ok"]

----------------------------------------------------------------------------
(* The viewport *)

\* Array.prototype.findIndex, 0-based, -1 when no element satisfies P
FindIndex(seq, P(_)) ==
    IF \E i \in DOMAIN seq : P(seq[i])
    THEN (CHOOSE i \in DOMAIN seq :
            P(seq[i]) /\ \A j \in 1..(i - 1) : ~P(seq[j])) - 1
    ELSE -1

\* Mutant: without the fallback to the first group on or after today (lines 139-147)
getBaseIndex_NoFuture(groups, scrolled, fixed, t, offsetMin) ==
    IF scrolled /\ fixed >= 0 THEN fixed
    ELSE LET todayStr    == getLocalISODateString(t, offsetMin)
             IsToday(g)  == g.date = todayStr
             todayIndex  == FindIndex(groups, IsToday)
         IN  IF todayIndex /= -1 THEN todayIndex ELSE 0

\* Mutant: the frozen index is ignored and the anchor recomputed on every call
getBaseIndex_Recomputes(groups, scrolled, fixed, t, offsetMin) ==
    LET todayStr    == getLocalISODateString(t, offsetMin)
        IsToday(g)  == g.date = todayStr
        todayIndex  == FindIndex(groups, IsToday)
        IsFuture(g) == DateOfKey(g.date) >= LocalMidnight(t, offsetMin)
        futureIndex == FindIndex(groups, IsFuture)
    IN  IF todayIndex /= -1 THEN todayIndex
        ELSE IF futureIndex /= -1 THEN futureIndex ELSE 0

\* Lines 130-148
getBaseIndex(groups, scrolled, fixed, t, offsetMin) ==
    IF scrolled /\ fixed >= 0 THEN fixed
    ELSE LET todayStr    == getLocalISODateString(t, offsetMin)
             IsToday(g)  == g.date = todayStr
             todayIndex  == FindIndex(groups, IsToday)
             IsFuture(g) == DateOfKey(g.date) >= LocalMidnight(t, offsetMin)
             futureIndex == FindIndex(groups, IsFuture)
         IN  IF todayIndex /= -1 THEN todayIndex
             ELSE IF futureIndex /= -1 THEN futureIndex ELSE 0

\* Mutant: a group is dropped only when it repeats the date of the group kept last
RECURSIVE getUniqueGroups_AdjacentOnly(_)
getUniqueGroups_AdjacentOnly(groups) ==
    IF groups = <<>> THEN <<>>
    ELSE LET result == getUniqueGroups_AdjacentOnly(SubSeq(groups, 1, Len(groups) - 1))
             group  == groups[Len(groups)]
         IN  IF result /= <<>> /\ result[Len(result)].date = group.date THEN result
             ELSE Append(result, group)

\* Lines 150-161: the first group of each date, in stored order
RECURSIVE getUniqueGroups(_)
getUniqueGroups(groups) ==
    IF groups = <<>> THEN <<>>
    ELSE LET result == getUniqueGroups(SubSeq(groups, 1, Len(groups) - 1))
             group  == groups[Len(groups)]
         IN  IF \E i \in DOMAIN result : result[i].date = group.date THEN result
             ELSE Append(result, group)

\* Mutant: the window is cut around the base index after a scroll as well
displayedGroupsOf_AlwaysWindow(groups, scrolled, fixed, t, offsetMin) ==
    LET baseIndex    == getBaseIndex(groups, scrolled, fixed, t, offsetMin)
        uniqueGroups == getUniqueGroups(groups)
        start        == Max(0, baseIndex - 2)
        end          == Min(Len(uniqueGroups) - 1, baseIndex + 4)
    IN  IF baseIndex = -1 THEN <<>>
        ELSE SubSeq(uniqueGroups, start + 1, end + 1)

\* Mutant: the slice starts 4 groups before the base index
displayedGroupsOf_FourBefore(groups, scrolled, fixed, t, offsetMin) ==
    LET baseIndex    == getBaseIndex(groups, scrolled, fixed, t, offsetMin)
        uniqueGroups == getUniqueGroups(groups)
        start        == Max(0, baseIndex - 4)
        end          == Min(Len(uniqueGroups) - 1, baseIndex + 4)
    IN  IF baseIndex = -1 THEN <<>>
        ELSE IF scrolled THEN uniqueGroups
        ELSE SubSeq(uniqueGroups, start + 1, end + 1)

\* Lines 164-182: the computed slice; 2 groups before the base index and 4 after it
displayedGroupsOf(groups, scrolled, fixed, t, offsetMin) ==
    LET baseIndex    == getBaseIndex(groups, scrolled, fixed, t, offsetMin)
        uniqueGroups == getUniqueGroups(groups)
        start        == Max(0, baseIndex - 2)
        end          == Min(Len(uniqueGroups) - 1, baseIndex + 4)
    IN  IF baseIndex = -1 THEN <<>>
        ELSE IF scrolled THEN uniqueGroups
        ELSE SubSeq(uniqueGroups, start + 1, end + 1)

displayedGroups ==
    displayedGroupsOf(timeLineGroups, userScrolled, fixedBaseIndex, now, tzOffset)

----------------------------------------------------------------------------
(* The widget *)

\* 2025-05-31T02:00:00Z, the clock when the widget is created
Now0 == DateUTC(2025, 4, 31, 2, 0, 0)

\* getTimezoneOffset() of the viewer: UTC+8
TimezoneOffsets == {-480}

\* The viewers of SpecBatch: UTC+8, UTC and UTC-5
ViewerOffsets == {-480, 0, 300}

\* Line 214: the arguments of the call onMounted makes
MountCall == [before |-> 4, after |-> 5, mount |-> TRUE]

\* The widen calls: one that advances nothing after the mount call, one that
\* advances the past side, one that advances the future side
WidenCall(beforeDays, afterDays) ==
    [before |-> beforeDays, after |-> afterDays, mount |-> FALSE]
WidenCalls == {WidenCall(2, 3), WidenCall(6, 5), WidenCall(4, 7)}

NoReply == [kind |-> "none"]

\* The widen calls of SpecMerge: two that share the past threshold, so that the one
\* merged second advances less than it would have when it was issued
MergeCalls == {WidenCall(6, 5), WidenCall(6, 7)}

\* The widen calls issued against a collaborator that answers by window
WindowCalls == {WidenCall(6, 5), WidenCall(6, 6)}

AllCalls == {MountCall} \cup WidenCalls \cup MergeCalls \cup WindowCalls

\* Before any call has settled
NoCall == [before |-> 0, after |-> 0, mount |-> FALSE]
NoSettle == [call |-> NoCall, seen |-> [before |-> 0, after |-> 0],
             met |-> [before |-> 0, after |-> 0], repeated |-> FALSE, alone |-> TRUE]

\* The history and the card of a widget just created
InitHistory ==
    /\ lastReply = NoReply
    /\ lastSettle = NoSettle
    /\ issuedAt = [c \in AllCalls |-> [before |-> 0, after |-> 0]]
    /\ serial = [groups |-> <<>>, range |-> [before |-> 0, after |-> 0]]
    /\ cardItems = <<>>
    /\ rendered = [outcome |-> "none"]

Init ==
    /\ timeLineGroups = <<>>
    /\ loadedRange = [before |-> 0, after |-> 0]
    /\ loading = TRUE
    /\ userScrolled = FALSE
    /\ fixedBaseIndex = -1
    /\ inflight = {}
    /\ mounted = FALSE
    /\ now = Now0
    /\ tzOffset \in TimezoneOffsets
    /\ backend = BackendDates
    /\ issued = {}
    /\ completed = [before |-> 0, after |-> 0]
    /\ InitHistory

\* fetchTimeLineGroups up to its await (lines 36-40)
Issue(call) ==
    /\ call \notin inflight
    /\ inflight' = inflight \cup {call}
    /\ issued' = issued \cup {call}

\* Lines 213-214: onMounted calls fetchTimeLineGroups(4, 5)
Mount ==
    /\ ~mounted
    /\ mounted' = TRUE
    /\ Issue(MountCall)
    /\ UNCHANGED <<timeLineGroups, loadedRange, loading, userScrolled,
                   fixedBaseIndex, now, tzOffset, backend, completed, lastReply>>
    /\ UNCHANGED <<mergeHistory, cardVars>>

\* A widen call fetchTimeLineGroups(beforeDays, afterDays) from the rendered timeline
\* (the template renders it once loading is false, line 232)
Widen(call) ==
    /\ ~loading
    /\ Issue(call)
    /\ UNCHANGED <<timeLineGroups, loadedRange, loading, userScrolled,
                   fixedBaseIndex, mounted, now, tzOffset, backend, completed,
                   lastReply>>
    /\ UNCHANGED <<mergeHistory, cardVars>>

\* Mutant: the thresholds are tested against the range read before the await
Continue_RangeAtIssue(call, reply) ==
    /\ call \in inflight
    /\ LET result == fetchTimeLineGroups(timeLineGroups, issuedAt[call], call.before,
                                         call.after, reply, tzOffset)
           merged == result.outcome = "ok"
       IN  /\ timeLineGroups' = result.groups
           /\ loadedRange' =
                 [before |-> IF merged /\ call.before > issuedAt[call].before
                             THEN call.before ELSE loadedRange.before,
                  after  |-> IF merged /\ call.after > issuedAt[call].after
                             THEN call.after ELSE loadedRange.after]
           /\ completed' = IF merged
                           THEN [before |-> Max(completed.before, call.before),
                                 after  |-> Max(completed.after, call.after)]
                           ELSE completed
    /\ inflight' = inflight \ {call}
    /\ loading' = IF call.mount THEN FALSE ELSE loading
    /\ UNCHANGED <<userScrolled, fixedBaseIndex, mounted, now, tzOffset, backend,
                   issued>>

\* Mutant: loading is cleared inside the try, so a failed mount call leaves it set
Continue_ClearsOnSuccess(call, reply) ==
    /\ call \in inflight
    /\ LET result == fetchTimeLineGroups(timeLineGroups, loadedRange, call.before,
                                         call.after, reply, tzOffset)
       IN  /\ timeLineGroups' = result.groups
           /\ loadedRange' = result.range
           /\ completed' = IF result.outcome = "ok"
                           THEN [before |-> Max(completed.before, call.before),
                                 after  |-> Max(completed.after, call.after)]
                           ELSE completed
           /\ loading' = IF call.mount /\ result.outcome = "ok" THEN FALSE ELSE loading
    /\ inflight' = inflight \ {call}
    /\ UNCHANGED <<userScrolled, fixedBaseIndex, mounted, now, tzOffset, backend,
                   issued>>

\* The awaited fetch of a suspended call settles and the call runs to its end in one
\* turn of the event loop (lines 41-99); the mount call then clears loading (line 215)
Continue(call, reply) ==
    /\ call \in inflight
    /\ LET result == fetchTimeLineGroups(timeLineGroups, loadedRange, call.before,
                                         call.after, reply, tzOffset)
       IN  /\ timeLineGroups' = result.groups
           /\ loadedRange' = result.range
           /\ completed' = IF result.outcome = "ok"
                           THEN [before |-> Max(completed.before, call.before),
                                 after  |-> Max(completed.after, call.after)]
                           ELSE completed
    /\ inflight' = inflight \ {call}
    /\ loading' = IF call.mount THEN FALSE ELSE loading
    /\ UNCHANGED <<userScrolled, fixedBaseIndex, mounted, now, tzOffset, backend,
                   issued>>

Settle(call, reply) ==
    /\ Continue(call, reply)
    /\ UNCHANGED <<lastReply, mergeHistory, cardVars>>

\* The first scroll of the rendered timeline freezes the viewport
Scroll ==
    /\ ~loading
    /\ ~userScrolled
    /\ userScrolled' = TRUE
    /\ fixedBaseIndex' = getBaseIndex(timeLineGroups, userScrolled, fixedBaseIndex,
                                      now, tzOffset)
    /\ UNCHANGED <<timeLineGroups, loadedRange, loading, inflight, mounted, now,
                   tzOffset, backend, issued, completed, lastReply>>
    /\ UNCHANGED <<mergeHistory, cardVars>>

\* The viewer's clock passes into the next day
Tick ==
    /\ now < Now0 + MaxTicks * SecondsPerDay
    /\ now' = now + SecondsPerDay
    /\ UNCHANGED <<timeLineGroups, loadedRange, loading, userScrolled,
                   fixedBaseIndex, inflight, mounted, tzOffset, backend, issued,
                   completed, lastReply>>
    /\ UNCHANGED <<mergeHistory, cardVars>>

Next ==
    \/ Mount
    \/ \E call \in WidenCalls : Widen(call)
    \/ \E call \in inflight, reply \in Replies(backend) : Settle(call, reply)
    \/ \E call \in inflight : Settle(call, Rejected)
    \/ Scroll
    \/ Tick

Spec == Init /\ [][Next]_vars

----------------------------------------------------------------------------
(* The batch of one response: the mount call alone, over a collaborator whose events
   share ids and days and carry malformed timestamps, the response kept as history *)

InitBatch ==
    /\ timeLineGroups = <<>>
    /\ loadedRange = [before |-> 0, after |-> 0]
    /\ loading = TRUE
    /\ userScrolled = FALSE
    /\ fixedBaseIndex = -1
    /\ inflight = {}
    /\ mounted = FALSE
    /\ now = Now0
    /\ tzOffset \in ViewerOffsets
    /\ backend = BackendItems
    /\ issued = {}
    /\ completed = [before |-> 0, after |-> 0]
    /\ InitHistory

SettleRecorded(call, reply) ==
    /\ Continue(call, reply)
    /\ lastReply' = reply
    /\ UNCHANGED <<mergeHistory, cardVars>>

NextBatch ==
    \/ Mount
    \/ \E call \in inflight, reply \in Replies(backend) : SettleRecorded(call, reply)
    \/ \E call \in inflight : SettleRecorded(call, Rejected)

SpecBatch == InitBatch /\ [][NextBatch]_vars

----------------------------------------------------------------------------
(* Merges of overlapping windows: widen calls issued while others are suspended, over
   a collaborator with two subscriptions on one day; the history records how each
   settled call met the stored state *)

\* A second subscription airing on 2025-05-28
Ev0528Other == RawEvent(5, Str(Stamp0528), Str(Stamp0531), Null)

BackendMerge == <<Ev0528, Ev0528Other>>

InitMerge ==
    /\ timeLineGroups = <<>>
    /\ loadedRange = [before |-> 0, after |-> 0]
    /\ loading = TRUE
    /\ userScrolled = FALSE
    /\ fixedBaseIndex = -1
    /\ inflight = {}
    /\ mounted = FALSE
    /\ now = Now0
    /\ tzOffset \in TimezoneOffsets
    /\ backend = BackendMerge
    /\ issued = {}
    /\ completed = [before |-> 0, after |-> 0]
    /\ InitHistory

WidenTracked(call) ==
    /\ ~loading
    /\ Issue(call)
    /\ issuedAt' = [issuedAt EXCEPT ![call] = loadedRange]
    /\ UNCHANGED <<timeLineGroups, loadedRange, loading, userScrolled,
                   fixedBaseIndex, mounted, now, tzOffset, backend, completed,
                   lastReply, lastSettle, serial, cardVars>>

\* Lines 41-96 run from a stored state without anything in between: the batch of the
\* response goes in front when beforeDays advances and behind when afterDays does
MergeInOrder(state, call, reply, offsetMin) ==
    IF reply.kind = "resolved" /\ reply.shape = "array"
    THEN LET batch == BatchOf(reply.events, offsetMin)
             front == IF call.before > state.range.before THEN batch ELSE <<>>
             back  == IF call.after > state.range.after THEN batch ELSE <<>>
         IN  [groups |-> front \o state.groups \o back,
              range  |-> [before |-> Max(state.range.before, call.before),
                          after  |-> Max(state.range.after, call.after)]]
    ELSE state

SettleTracked(call, reply) ==
    /\ Continue(call, reply)
    /\ lastReply' = reply
    /\ lastSettle' = [call     |-> call,
                      seen     |-> issuedAt[call],
                      met      |-> loadedRange,
                      repeated |-> /\ lastSettle.call = call
                                   /\ lastReply = reply
                                   /\ reply.kind = "resolved"
                                   /\ reply.shape = "array",
                      alone    |-> inflight = {call}]
    /\ issuedAt' = [issuedAt EXCEPT ![call] = [before |-> 0, after |-> 0]]
    /\ serial' = MergeInOrder(serial, call, reply, tzOffset)
    /\ UNCHANGED cardVars

NextMerge ==
    \/ Mount
    \/ \E call \in MergeCalls : WidenTracked(call)
    \/ \E call \in inflight, reply \in Replies(backend) : SettleTracked(call, reply)
    \/ \E call \in inflight : SettleTracked(call, Rejected)

SpecMerge == InitMerge /\ [][NextMerge]_vars

----------------------------------------------------------------------------
(* The loader that takes the date-keyed mapping (the version of the widget kept in
   CalendarEvent.vue:412-450), over the mapping of the development mock *)

\* CalendarEvent.vue:412-450: Object.entries of the response become the groups, under
\* the keys of the response, sorted by date and inserted by the same two tests
fetchTimeLineGroupsOfMapping(groups, range, beforeDays, afterDays, reply) ==
    IF reply.kind = "rejected"
    THEN [groups |-> groups, range |-> range, outcome |-> "rejected"]
    ELSE LET merged == InsertBatch(groups, range, beforeDays, afterDays,
                                   FilterGroups(SortGroups(reply.entries)))
         IN  [groups |-> merged.groups, range |-> merged.range, outcome |-> "ok"]

\* The widen call made of the mapping loader
MappingCalls == {WidenCall(6, 7)}

\* The mappings the collaborator may answer with: any selection of its dates
MappingReplies(entries) == {MappingReply(es) : es \in SubLists(entries)}

InitMapping ==
    /\ timeLineGroups = <<>>
    /\ loadedRange = [before |-> 0, after |-> 0]
    /\ loading = TRUE
    /\ userScrolled = FALSE
    /\ fixedBaseIndex = -1
    /\ inflight = {}
    /\ mounted = FALSE
    /\ now = Now0
    /\ tzOffset \in ViewerOffsets
    /\ backend = MockMapping
    /\ issued = {}
    /\ completed = [before |-> 0, after |-> 0]
    /\ InitHistory

\* The awaited fetch settles and the mapping loader runs to its end (lines 417-449);
\* the mount call then clears loading (CalendarEvent.vue:538)
SettleMapping(call, reply) ==
    /\ call \in inflight
    /\ LET result == fetchTimeLineGroupsOfMapping(timeLineGroups, loadedRange,
                                                  call.before, call.after, reply)
       IN  /\ timeLineGroups' = result.groups
           /\ loadedRange' = result.range
           /\ completed' = IF result.outcome = "ok"
                           THEN [before |-> Max(completed.before, call.before),
                                 after  |-> Max(completed.after, call.after)]
                           ELSE completed
    /\ inflight' = inflight \ {call}
    /\ loading' = IF call.mount THEN FALSE ELSE loading
    /\ lastReply' = reply
    /\ UNCHANGED <<userScrolled, fixedBaseIndex, mounted, now, tzOffset, backend,
                   issued, mergeHistory, cardVars>>

NextMapping ==
    \/ Mount
    \/ \E call \in MappingCalls : Widen(call)
    \/ \E call \in inflight, reply \in MappingReplies(backend) :
          SettleMapping(call, reply)
    \/ \E call \in inflight : SettleMapping(call, Rejected)

SpecMapping == InitMapping /\ [][NextMapping]_vars

----------------------------------------------------------------------------
(* The anchor before any scroll: the widget created on different days by viewers of
   different zones *)

\* The clock when the widget is created: 2025-05-29T02:00:00Z or 2025-05-31T02:00:00Z
AnchorClocks == {Now0 - 2 * SecondsPerDay, Now0}

\* The widen call made before the scroll: further into the past
AnchorCalls == {WidenCall(6, 5)}

InitAnchor ==
    /\ timeLineGroups = <<>>
    /\ loadedRange = [before |-> 0, after |-> 0]
    /\ loading = TRUE
    /\ userScrolled = FALSE
    /\ fixedBaseIndex = -1
    /\ inflight = {}
    /\ mounted = FALSE
    /\ now \in AnchorClocks
    /\ tzOffset \in ViewerOffsets
    /\ backend = BackendDates
    /\ issued = {}
    /\ completed = [before |-> 0, after |-> 0]
    /\ InitHistory

NextAnchor ==
    \/ Mount
    \/ \E call \in AnchorCalls : Widen(call)
    \/ \E call \in inflight, reply \in Replies(backend) : Settle(call, reply)
    \/ \E call \in inflight : Settle(call, Rejected)

SpecAnchor == InitAnchor /\ [][NextAnchor]_vars

----------------------------------------------------------------------------
(* One card of the timeline: sortedEvents of CalendarEvent.vue over the items of the
   group it is given *)

NaN == [kind |-> "NaN"]

IsDigits(text, n) == Len(text) = n /\ \A i \in DOMAIN text : text[i] \in DigitChars

\* Lines 91-93: formatDateString, `YYYY-MM-DDTHH:MM:SSZ` built from slices of the
\* text; the six slices are kept apart, the separators being fixed
formatDateString(dateStr) ==
    [year   |-> Slice(dateStr, 0, 4),  month  |-> Slice(dateStr, 4, 6),
     day    |-> Slice(dateStr, 6, 8),  hour   |-> Slice(dateStr, 9, 11),
     minute |-> Slice(dateStr, 11, 13), second |-> Slice(dateStr, 13, 15)]

\* Date.parse of the date-time text / 1000: NaN unless every field has its digits
\* and is in range (a day beyond its month's last is not among the inputs)
DateParse(f) ==
    IF /\ IsDigits(f.year, 4) /\ IsDigits(f.month, 2) /\ IsDigits(f.day, 2)
       /\ IsDigits(f.hour, 2) /\ IsDigits(f.minute, 2) /\ IsDigits(f.second, 2)
       /\ ParseInt(f.month) \in 1..12 /\ ParseInt(f.day) \in 1..31
       /\ ParseInt(f.hour) \in 0..23 /\ ParseInt(f.minute) \in 0..59
       /\ ParseInt(f.second) \in 0..59
    THEN Num(DateUTC(ParseInt(f.year), ParseInt(f.month) - 1, ParseInt(f.day),
                     ParseInt(f.hour), ParseInt(f.minute), ParseInt(f.second)))
    ELSE NaN

\* Mutant: of two items of one subscription at one instant, the later episode first
sortCompare_EpisodeDescending(a, b) ==
    LET dateA == DateParse(formatDateString(a.dtstart.s))
        dateB == DateParse(formatDateString(b.dtstart.s))
        hasAEpisode == a.episode /= Null
        hasBEpisode == b.episode /= Null
    IN  IF dateA = NaN THEN 1
        ELSE IF dateB = NaN THEN -1
        ELSE IF dateA /= dateB THEN dateA.n - dateB.n
        ELSE IF a.id /= b.id THEN (IF a.id < b.id THEN -1 ELSE 1)
        ELSE IF ~hasAEpisode /\ hasBEpisode THEN 1
        ELSE IF hasAEpisode /\ ~hasBEpisode THEN -1
        ELSE IF hasAEpisode /\ hasBEpisode THEN b.episode.n - a.episode.n
        ELSE 0

\* Mutant: the ids are compared before the instants
sortCompare_IdBeforeDate(a, b) ==
    LET dateA == DateParse(formatDateString(a.dtstart.s))
        dateB == DateParse(formatDateString(b.dtstart.s))
    IN  IF dateA = NaN THEN 1
        ELSE IF dateB = NaN THEN -1
        ELSE IF a.id /= b.id THEN (IF a.id < b.id THEN -1 ELSE 1)
        ELSE IF dateA /= dateB THEN dateA.n - dateB.n
        ELSE 0

\* Mutant: of two items at one instant, the larger id first
sortCompare_IdDescending(a, b) ==
    LET dateA == DateParse(formatDateString(a.dtstart.s))
        dateB == DateParse(formatDateString(b.dtstart.s))
    IN  IF dateA = NaN THEN 1
        ELSE IF dateB = NaN THEN -1
        ELSE IF dateA /= dateB THEN dateA.n - dateB.n
        ELSE IF a.id /= b.id THEN (IF a.id < b.id THEN 1 ELSE -1)
        ELSE 0

\* Lines 90-122: the comparator of the sort, over items whose dtstart is a text
sortCompare(a, b) ==
    LET dateA == DateParse(formatDateString(a.dtstart.s))
        dateB == DateParse(formatDateString(b.dtstart.s))
        hasAEpisode == a.episode /= Null
        hasBEpisode == b.episode /= Null
    IN  IF dateA = NaN THEN 1
        ELSE IF dateB = NaN THEN -1
        ELSE IF dateA /= dateB THEN dateA.n - dateB.n
        ELSE IF a.id /= b.id THEN (IF a.id < b.id THEN -1 ELSE 1)
        ELSE IF ~hasAEpisode /\ hasBEpisode THEN 1
        ELSE IF hasAEpisode /\ ~hasBEpisode THEN -1
        ELSE IF hasAEpisode /\ hasBEpisode THEN a.episode.n - b.episode.n
        ELSE 0

\* Which argument the engine's sort hands the comparator first when it places an
\* item among those already sorted: the item being placed (a binary insertion that
\* calls comparefn(pivot, element)), or the sorted one (an insertion sort that walks
\* back calling comparefn(element, item)).  The orders agree for a consistent
\* comparator; for another the language leaves the result to the engine.
ArgumentOrders == {"pivotFirst", "elementFirst"}

\* One step of the stable sort: e goes behind every item that the comparator, asked
\* in the engine's argument order, does not put after it
InsertSorted(sorted, e, order) ==
    LET StaysBefore(x) == IF order = "elementFirst"
                          THEN sortCompare(x, e) <= 0
                          ELSE ~(sortCompare(e, x) < 0)
        k == Cardinality({i \in DOMAIN sorted : StaysBefore(sorted[i])})
    IN  SubSeq(sorted, 1, k) \o <<e>> \o SubSeq(sorted, k + 1, Len(sorted))

\* Array.prototype.sort with the comparator: stable
RECURSIVE SortItems(_, _)
SortItems(items, order) ==
    IF items = <<>> THEN <<>>
    ELSE InsertSorted(SortItems(SubSeq(items, 1, Len(items) - 1), order),
                      items[Len(items)], order)

\* event?.dtstart is truthy: a non-empty text, or a Date
HasStart(event) ==
    \/ event.dtstart.kind = "string" /\ event.dtstart.s /= <<>>
    \/ event.dtstart.kind = "Date"

\* Lines 83-123: sortedEvents.  The comparator slices dtstart: an item whose dtstart
\* is not a text makes the first comparison throw.
sortedEvents(items, order) ==
    LET kept == SelectSeq(items, HasStart)
    IN  IF Len(kept) >= 2 /\ \E i \in DOMAIN kept : kept[i].dtstart.kind /= "string"
        THEN [outcome |-> "raised"]
        ELSE [outcome |-> "ok", value |-> SortItems(kept, order)]

\* Mutant: the loop does not stop at four items (line 134 left out)
RECURSIVE uniqueEvents_NoCap(_)
uniqueEvents_NoCap(sorted) ==
    IF sorted = <<>> THEN <<>>
    ELSE LET result == uniqueEvents_NoCap(SubSeq(sorted, 1, Len(sorted) - 1))
             event  == sorted[Len(sorted)]
         IN  IF \E i \in DOMAIN result : result[i].id = event.id THEN result
             ELSE Append(result, event)

\* Lines 126-139: uniqueEvents over sortedEvents.value: the items whose id has not
\* been seen, until there are four
RECURSIVE uniqueEvents(_)
uniqueEvents(sorted) ==
    IF sorted = <<>> THEN <<>>
    ELSE LET result == uniqueEvents(SubSeq(sorted, 1, Len(sorted) - 1))
             event  == sorted[Len(sorted)]
         IN  IF Len(result) >= 4 THEN result
             ELSE IF \E i \in DOMAIN result : result[i].id = event.id THEN result
             ELSE Append(result, event)

\* A rerun of subscription 6 at the instant of Ev0531, neither with an episode
Ev0531Rerun == RawEvent(6, Str(Stamp0531), Str(Stamp0601Late), Null)

\* Subscription 10 at the instant of Ev0531
EvId10 == RawEvent(10, Str(Stamp0531), Str(Stamp0601Late), Null)

\* An item whose dtstart is the text "TBA"
EvUnknown == RawEvent(3, Str(<<"T", "B", "A">>), Null, Num(2))

\* The items a card may be given: episodes 3 and 1 and two episode-less items of one
\* subscription at one instant, another subscription at that instant, an earlier and
\* a later item of other subscriptions, two items whose dtstart gives no instant
CardPool == {EvEpisode3, EvEpisode1, Ev0531, Ev0531Rerun, Ev0528, Ev0531Late,
             EvId10, EvMalformed, EvUnknown}

\* A long card, every item of the pool in an order that is not the sorted one
LongCard == <<EvUnknown, Ev0531Late, EvEpisode3, EvId10, Ev0531, EvMalformed,
              EvEpisode1, Ev0528, Ev0531Rerun>>

NoRepeat(seq) == \A i, j \in DOMAIN seq : i /= j => seq[i] /= seq[j]

\* The cards: every list of up to MaxCard distinct items, and every selection of the
\* items of the long card
CardInputs ==
    UNION {{seq \in [1..n -> CardPool] : NoRepeat(seq)} : n \in 0..MaxCard}
      \cup SubLists(LongCard)

InitSort ==
    /\ timeLineGroups = <<>>
    /\ loadedRange = [before |-> 0, after |-> 0]
    /\ loading = TRUE
    /\ userScrolled = FALSE
    /\ fixedBaseIndex = -1
    /\ inflight = {}
    /\ mounted = FALSE
    /\ now = Now0
    /\ tzOffset \in TimezoneOffsets
    /\ backend = <<>>
    /\ issued = {}
    /\ completed = [before |-> 0, after |-> 0]
    /\ lastReply = NoReply
    /\ lastSettle = NoSettle
    /\ issuedAt = [c \in AllCalls |-> [before |-> 0, after |-> 0]]
    /\ serial = [groups |-> <<>>, range |-> [before |-> 0, after |-> 0]]
    /\ cardItems \in CardInputs
    /\ rendered = [outcome |-> "none"]

\* The card is rendered: the template reads sortedEvents (lines 157-184)
Render ==
    /\ rendered.outcome = "none"
    /\ \E order \in ArgumentOrders : rendered' = sortedEvents(cardItems, order)
    /\ UNCHANGED <<timeLineGroups, loadedRange, loading, userScrolled,
                   fixedBaseIndex, inflight, mounted, now, tzOffset, backend, issued,
                   completed, lastReply, mergeHistory, cardItems>>

NextSort == Render

SpecSort == InitSort /\ [][NextSort]_vars

----------------------------------------------------------------------------
(* From the loader to the card: the timeline hands each group of the visible slice
   to a card (Dashboard.vue:241-248), which sorts the group's items *)

\* A card of the rendered timeline is given its group and renders
ShowCard ==
    /\ ~loading
    /\ \E i \in DOMAIN displayedGroups, order \in ArgumentOrders :
          /\ cardItems' = displayedGroups[i].items
          /\ rendered' = sortedEvents(displayedGroups[i].items, order)
    /\ UNCHANGED <<timeLineGroups, loadedRange, loading, userScrolled,
                   fixedBaseIndex, inflight, mounted, now, tzOffset, backend, issued,
                   completed, lastReply, mergeHistory>>

NextPipeline ==
    \/ Mount
    \/ \E call \in inflight, reply \in Replies(backend) : SettleRecorded(call, reply)
    \/ \E call \in inflight : SettleRecorded(call, Rejected)
    \/ ShowCard

SpecPipeline == InitBatch /\ [][NextPipeline]_vars

----------------------------------------------------------------------------
(* Widening over fixed backing data: the collaborator holds one event a day and
   answers each call with the events of the call's window around the clock *)

DigitOf(n) ==
    CASE n = 0 -> "0" [] n = 1 -> "1" [] n = 2 -> "2" [] n = 3 -> "3"
      [] n = 4 -> "4" [] n = 5 -> "5" [] n = 6 -> "6" [] n = 7 -> "7"
      [] n = 8 -> "8" [] n = 9 -> "9"

TwoDigits(n) == <<DigitOf(n \div 10), DigitOf(n % 10)>>

\* The instant t written as YYYYMMDDTHHMMSSZ
StampOf(t) ==
    LET date == CivilFromDays(t \div SecondsPerDay)
        secs == t % SecondsPerDay
    IN  TwoDigits(date[1] \div 100) \o TwoDigits(date[1] % 100)
          \o TwoDigits(date[2]) \o TwoDigits(date[3]) \o <<"T">>
          \o TwoDigits(secs \div 3600) \o TwoDigits((secs % 3600) \div 60)
          \o TwoDigits(secs % 60) \o <<"Z">>

\* The days of the backing data before and after the day the widget is created
DaysAround == 7

\* One event a day at 10:00Z, every fifth one at 16:00Z instead, so that a UTC+8
\* viewer sees days with two events and days with none
WindowEvent(k) ==
    LET start == Now0 - 2 * 3600 + (k - DaysAround - 1) * SecondsPerDay
                   + (IF k % 5 = 0 THEN 16 ELSE 10) * 3600
    IN  RawEvent(k, Str(StampOf(start)), Str(StampOf(start + 3600)), Null)

BackendWindow == [k \in 1..(2 * DaysAround + 1) |-> WindowEvent(k)]

InWindow(event, call, t) ==
    LET start == parseUTCDateTime(event.dtstart)
    IN  /\ start /= Null
        /\ start.t >= t - call.before * SecondsPerDay
        /\ start.t <= t + call.after * SecondsPerDay

RECURSIVE EventsInWindow(_, _, _)
EventsInWindow(events, call, t) ==
    IF events = <<>> THEN <<>>
    ELSE LET rest == EventsInWindow(SubSeq(events, 1, Len(events) - 1), call, t)
             last == events[Len(events)]
         IN  IF InWindow(last, call, t) THEN Append(rest, last) ELSE rest

\* The response to a call at clock t: the events that start within
\* [-beforeDays, +afterDays] days of t
WindowReply(events, call, t) == ArrayReply(EventsInWindow(events, call, t))

InitWindow ==
    /\ timeLineGroups = <<>>
    /\ loadedRange = [before |-> 0, after |-> 0]
    /\ loading = TRUE
    /\ userScrolled = FALSE
    /\ fixedBaseIndex = -1
    /\ inflight = {}
    /\ mounted = FALSE
    /\ now = Now0
    /\ tzOffset \in TimezoneOffsets
    /\ backend = BackendWindow
    /\ issued = {}
    /\ completed = [before |-> 0, after |-> 0]
    /\ InitHistory

\* A suspended call settles; the history keeps the range the call was issued at and
\* the range it met
SettleWindow(call, reply) ==
    /\ Continue(call, reply)
    /\ lastReply' = reply
    /\ lastSettle' = [call     |-> call,
                      seen     |-> issuedAt[call],
                      met      |-> loadedRange,
                      repeated |-> lastSettle.call = call /\ lastReply = reply,
                      alone    |-> inflight = {call}]
    /\ issuedAt' = [issuedAt EXCEPT ![call] = [before |-> 0, after |-> 0]]
    /\ UNCHANGED <<serial, cardVars>>

NextWindow ==
    \/ Mount
    \/ \E call \in WindowCalls : WidenTracked(call)
    \/ \E call \in inflight : SettleWindow(call, WindowReply(backend, call, now))
    \/ \E call \in inflight : SettleWindow(call, Rejected)
    \/ Tick

SpecWindow == InitWindow /\ [][NextWindow]_vars

----------------------------------------------------------------------------
(* Notions the claims are stated with *)

DateSet(groups) == {groups[i].date : i \in DOMAIN groups}
NoDupDates(groups) ==
    \A i, j \in DOMAIN groups : i /= j => groups[i].date /= groups[j].date

\* "YYYY-MM-DD" keys compared as texts: year, then month, then day
KeyLess(k1, k2) ==
    \/ k1[1] < k2[1]
    \/ k1[1] = k2[1] /\ k1[2] < k2[2]
    \/ k1[1] = k2[1] /\ k1[2] = k2[2] /\ k1[3] < k2[3]

MaxOf(S) == IF S = {} THEN 0 ELSE CHOOSE x \in S : \A y \in S : y <= x

Range(b, a) == [before |-> b, after |-> a]

\* The calls that have settled
SettledCalls == issued \ inflight

UniqueGroups == getUniqueGroups(timeLineGroups)
TodayKey == getLocalISODateString(now, tzOffset)
BaseIndex == getBaseIndex(timeLineGroups, userScrolled, fixedBaseIndex, now, tzOffset)

----------------------------------------------------------------------------
(* C1 *)

\* C1: whatever settles and however it ends, loadedRange.before and loadedRange.after
\* never decrease; and when fetchTimeLineGroups(2, 3) settles while loadedRange is
\* {before: 4, after: 5}, loadedRange stays {before: 4, after: 5}.
C1_RangeNeverShrinks ==
    [][ /\ loadedRange'.before >= loadedRange.before
        /\ loadedRange'.after >= loadedRange.after
        /\ ( /\ loadedRange = Range(4, 5)
             /\ WidenCall(2, 3) \in inflight
             /\ WidenCall(2, 3) \notin inflight' )
           => loadedRange' = Range(4, 5) ]_vars

\* The call (2, 3) has settled after the mount call (4, 5) had set the range
C1_Witness ==
    /\ loadedRange = Range(4, 5)
    /\ WidenCall(2, 3) \in SettledCalls

----------------------------------------------------------------------------
(* C2 *)

\* C2, as stated: once every call has settled, loadedRange holds the largest
\* beforeDays and the largest afterDays ever requested.
C2_RangeIsMaxRequested ==
    inflight = {} =>
        loadedRange = Range(MaxOf({c.before : c \in issued}),
                            MaxOf({c.after : c \in issued}))

\* C2, amended: loadedRange holds the largest beforeDays and the largest afterDays
\* of the calls that completed successfully (0 when none has), not the last call's.
C2_RangeIsMaxCompleted == loadedRange = completed

\* Two calls set the two thresholds, so neither call's own pair is the range
C2_Witness ==
    /\ loadedRange = Range(6, 7)
    /\ inflight = {}
    /\ WidenCall(2, 3) \in issued

----------------------------------------------------------------------------
(* C3 *)

----------------------------------------------------------------------------
(* C4 *)

\* The events of a response whose dtstart parses to an instant of local day key, as
\* they are stored, in the order of the response
StoredOn(events, key, offsetMin) ==
    LET OnDay(e) ==
            /\ parseUTCDateTime(e.dtstart) /= Null
            /\ getLocalISODateString(parseUTCDateTime(e.dtstart).t, offsetMin) = key
        chosen == SelectSeq(events, OnDay)
    IN  [k \in DOMAIN chosen |-> FormatItem(chosen[k])]

IsArrayReply(reply) == reply.kind = "resolved" /\ reply.shape = "array"

\* C4, as stated: no group holds two items with the same id.
C4_UniqueIdsInGroup ==
    \A i \in DOMAIN timeLineGroups :
        \A j, k \in DOMAIN timeLineGroups[i].items :
            j /= k => timeLineGroups[i].items[j].id /= timeLineGroups[i].items[k].id

\* C4, amended: a group holds every event of its response that parses to its date,
\* in response order, whether or not an item with the same id is already there.
C4_GroupKeepsEveryEvent ==
    IsArrayReply(lastReply) =>
        \A i \in DOMAIN timeLineGroups :
            timeLineGroups[i].items =
                StoredOn(lastReply.events, timeLineGroups[i].date, tzOffset)

\* A stored group holding two episodes of one subscription
C4_Witness ==
    \E i \in DOMAIN timeLineGroups :
        \E j, k \in DOMAIN timeLineGroups[i].items :
            /\ j < k
            /\ timeLineGroups[i].items[j].id = timeLineGroups[i].items[k].id
            /\ timeLineGroups[i].items[j].episode /= timeLineGroups[i].items[k].episode

----------------------------------------------------------------------------
(* C5 *)

\* A step in which a suspended call ends in the catch block: its fetch is rejected,
\* or its response has no forEach
FailedCall ==
    \E call \in inflight :
        Continue(call, Rejected) \/ Continue(call, ObjectReply)

\* C5: a call that fails leaves the stored groups and loadedRange as they were.
C5_FailureChangesNothing ==
    [][FailedCall => UNCHANGED <<timeLineGroups, loadedRange>>]_vars

\* A call asking for more past days than any completed call has settled, so it
\* failed, over a timeline that already holds groups
C5_Witness ==
    /\ timeLineGroups /= <<>>
    /\ \E call \in SettledCalls : call.before > completed.before

----------------------------------------------------------------------------
(* C6 *)

\* The fixed format as the specification words it: 8 digits, 'T', 6 digits, 'Z'
FixedFormat(v) ==
    /\ v.kind = "string"
    /\ Len(v.s) = 8 + 1 + 6 + 1
    /\ \A i \in DOMAIN v.s :
          CASE i = 9  -> v.s[i] = "T"
            [] i = 16 -> v.s[i] = "Z"
            [] OTHER  -> v.s[i] \in DigitChars

Entered(event, groups) ==
    \E i \in DOMAIN groups :
        \E j \in DOMAIN groups[i].items : groups[i].items[j] = FormatItem(event)

\* C6: when the response of a call is merged, the call runs to its end and an event
\* of the response is in a stored group exactly when its dtstart is in the fixed
\* format.
C6_EntersIffWellFormed ==
    IsArrayReply(lastReply) =>
        /\ completed = Range(4, 5)
        /\ \A k \in DOMAIN lastReply.events :
              Entered(lastReply.events[k], timeLineGroups)
                <=> FixedFormat(lastReply.events[k].dtstart)

\* A response merged whose malformed event came before a well-formed one
C6_Witness ==
    /\ IsArrayReply(lastReply)
    /\ timeLineGroups /= <<>>
    /\ \E j, k \in DOMAIN lastReply.events :
          /\ j < k
          /\ ~FixedFormat(lastReply.events[j].dtstart)
          /\ FixedFormat(lastReply.events[k].dtstart)

----------------------------------------------------------------------------
(* C7 *)

\* C7: the de-duplicated group list is in ascending date order.
C7_UniqueAscending ==
    \A i, j \in DOMAIN UniqueGroups :
        i < j => KeyLess(UniqueGroups[i].date, UniqueGroups[j].date)

----------------------------------------------------------------------------
(* C8 *)

\* The 1-based place in the de-duplicated list of the anchor group: the group of
\* today, else the first group dated after today, else 0
AnchorPlace ==
    LET u == UniqueGroups
        todays  == {i \in DOMAIN u : u[i].date = TodayKey}
        futures == {i \in DOMAIN u : KeyLess(TodayKey, u[i].date)}
    IN  IF todays /= {} THEN CHOOSE i \in todays : \A j \in todays : i <= j
        ELSE IF futures /= {} THEN CHOOSE i \in futures : \A j \in futures : i <= j
        ELSE 0

\* C8: before any scroll, when an anchor group exists the visible slice is the groups
\* at places anchor-2 .. anchor+4 of the de-duplicated list, cut to its bounds.
C8_SliceAroundAnchor ==
    (~userScrolled /\ AnchorPlace > 0) =>
        displayedGroups = SubSeq(UniqueGroups, Max(1, AnchorPlace - 2),
                                 Min(Len(UniqueGroups), AnchorPlace + 4))

----------------------------------------------------------------------------
(* C9 *)

----------------------------------------------------------------------------
(* C10 *)

\* C10: after a scroll the visible slice is the whole de-duplicated list, whatever
\* the day it is computed on.
C10_FrozenShowsAll ==
    userScrolled =>
        \A t \in {now - SecondsPerDay, now, now + SecondsPerDay} :
            displayedGroupsOf(timeLineGroups, userScrolled, fixedBaseIndex, t,
                              tzOffset) = UniqueGroups

\* Frozen at an index whose 7-wide window would leave out the first group
C10_Witness ==
    /\ userScrolled
    /\ fixedBaseIndex >= 3
    /\ Len(UniqueGroups) >= 2

----------------------------------------------------------------------------
(* C11 *)

\* The settled call met a range that neither of its arguments exceeds
Stale(settle) ==
    /\ settle.call.before <= settle.met.before
    /\ settle.call.after <= settle.met.after

\* C11: when a call settles with the response its previous, successful run settled
\* with, and no other call settled in between, the stored groups, the items of each
\* group and loadedRange are what they were after the first merge.
C11_RemergeChangesNothing ==
    [][lastSettle'.repeated => UNCHANGED <<timeLineGroups, loadedRange>>]_vars

\* fetchTimeLineGroups(6, 7) merged a response with events, was called again and
\* settled with the same response
C11_Witness ==
    /\ lastSettle.repeated
    /\ lastSettle.call = WidenCall(6, 7)
    /\ loadedRange = Range(6, 7)
    /\ lastReply.events /= <<>>
    /\ timeLineGroups /= <<>>

----------------------------------------------------------------------------
(* C12 *)

\* C12: a call that settles while its beforeDays does not exceed loadedRange.before
\* and its afterDays does not exceed loadedRange.after leaves the stored groups and
\* loadedRange unchanged, whatever its fetch settled with.
C12_NoAdvanceNoChange ==
    [][ \A call \in inflight :
          ( /\ inflight' = inflight \ {call}
            /\ call.before <= loadedRange.before
            /\ call.after <= loadedRange.after )
          => UNCHANGED <<timeLineGroups, loadedRange>> ]_vars

\* A call that advanced nothing settled with a response holding events, not the
\* response of the settle before it
C12_Witness ==
    /\ Stale(lastSettle)
    /\ ~lastSettle.repeated
    /\ IsArrayReply(lastReply)
    /\ Len(lastReply.events) = 2
    /\ timeLineGroups /= <<>>

----------------------------------------------------------------------------
(* C13 *)

IdsOf(group) == {group.items[k].id : k \in DOMAIN group.items}

\* C13: when a call that advances a threshold merges a response holding an event
\* whose local date already has a stored group without the event's id, some group of
\* that date holds, afterwards, the items of the existing group and the new event.
C13_ExistingGroupExtended ==
    [][ \A call \in inflight :
          ( /\ inflight' = inflight \ {call}
            /\ IsArrayReply(lastReply')
            /\ (call.before > loadedRange.before \/ call.after > loadedRange.after) )
          => \A k \in DOMAIN lastReply'.events :
               LET event == lastReply'.events[k]
                   start == parseUTCDateTime(event.dtstart)
                   key   == getLocalISODateString(start.t, tzOffset)
               IN  start /= Null =>
                     \A i \in DOMAIN timeLineGroups :
                        ( /\ timeLineGroups[i].date = key
                          /\ event.id \notin IdsOf(timeLineGroups[i]) )
                        => \E j \in DOMAIN timeLineGroups' :
                              /\ timeLineGroups'[j].date = key
                              /\ IdsOf(timeLineGroups[i]) \cup {event.id}
                                    \subseteq IdsOf(timeLineGroups'[j]) ]_vars

----------------------------------------------------------------------------
(* C14 *)

\* The place of an item among the items the card was given
PlaceIn(items, e) == CHOOSE i \in DOMAIN items : items[i] = e

\* Two items of one subscription that start at one instant
TiedOnStartAndId(a, b) ==
    /\ parseUTCDateTime(a.dtstart) /= Null
    /\ parseUTCDateTime(a.dtstart) = parseUTCDateTime(b.dtstart)
    /\ a.id = b.id

\* C14: of two sorted items with the same start instant and the same id, one
\* without an episode never precedes one with an episode, two episodes are in
\* ascending order of number, and two items without an episode are in the order the
\* card was given them in.
C14_EpisodeRules ==
    rendered.outcome = "ok" =>
        \A i, j \in DOMAIN rendered.value :
            LET a == rendered.value[i]
                b == rendered.value[j]
            IN  (i < j /\ TiedOnStartAndId(a, b)) =>
                  /\ ~(a.episode = Null /\ b.episode /= Null)
                  /\ (a.episode /= Null /\ b.episode /= Null)
                        => a.episode.n <= b.episode.n
                  /\ (a.episode = Null /\ b.episode = Null)
                        => PlaceIn(cardItems, a) < PlaceIn(cardItems, b)

\* A card given episode 3, an episode-less item and episode 1 of one subscription at
\* one instant, in that order, and sorted: episode 1, episode 3, the episode-less
C14_Witness ==
    /\ cardItems = <<EvEpisode3, Ev0531, EvEpisode1>>
    /\ rendered = [outcome |-> "ok", value |-> <<EvEpisode1, EvEpisode3, Ev0531>>]

----------------------------------------------------------------------------
(* C15 *)

\* 2025-05-31T16:00:00Z
Instant0531Late == DateUTC(2025, 4, 31, 16, 0, 0)

\* The viewer's wall clock is ahead of UTC by this many seconds
SecondsAheadOfUTC == (0 - tzOffset) * 60

\* C15: the date of a group is the calendar day its items start on by the viewer's
\* wall clock: the instant shifted by the viewer's UTC offset lies within that day.
\* An item starting at 20250531T160000Z is under 2025-06-01 for a UTC+8 viewer and
\* under 2025-05-31 for a UTC viewer.
C15_LocalDayNotUTCDay ==
    \A i \in DOMAIN timeLineGroups :
        \A k \in DOMAIN timeLineGroups[i].items :
            LET t    == timeLineGroups[i].items[k].dtstart.t
                date == timeLineGroups[i].date
            IN  /\ DateOfKey(date) <= t + SecondsAheadOfUTC
                /\ t + SecondsAheadOfUTC < DateOfKey(date) + SecondsPerDay
                /\ (t = Instant0531Late /\ tzOffset = -480) => date = <<2025, 6, 1>>
                /\ (t = Instant0531Late /\ tzOffset = 0) => date = <<2025, 5, 31>>

\* A UTC+8 viewer's timeline holds the item of 20250531T160000Z under 2025-06-01
C15_Witness ==
    /\ tzOffset = -480
    /\ \E i \in DOMAIN timeLineGroups :
          /\ timeLineGroups[i].date = <<2025, 6, 1>>
          /\ \E k \in DOMAIN timeLineGroups[i].items :
                timeLineGroups[i].items[k].dtstart = DateObj(Instant0531Late)

----------------------------------------------------------------------------
(* C16 *)

\* The events a response returns, whichever its shape
ReturnedEvents(reply) ==
    IF reply.shape = "array" THEN {reply.events[k] : k \in DOMAIN reply.events}
    ELSE UNION {{reply.entries[i].items[k] : k \in DOMAIN reply.entries[i].items} :
                  i \in DOMAIN reply.entries}

\* C16: whichever shape the response of the merged call has, a flat list or a
\* date-keyed mapping, its events in the fixed format are in groups of the timeline.
C16_EitherShapeAccepted ==
    lastReply.kind = "resolved" =>
        \A event \in ReturnedEvents(lastReply) :
            FixedFormat(event.dtstart) => Entered(event, timeLineGroups)

----------------------------------------------------------------------------
(* C19 *)

\* The instant an item starts at: the stored Date, or the instant its text gives
StartOf(item) ==
    IF item.dtstart.kind = "Date" THEN item.dtstart
    ELSE parseUTCDateTime(item.dtstart)

\* C19: every item of every stored group starts, by the viewer's wall clock, on the
\* date of its group.
C19_ItemsUnderOwnLocalDate ==
    \A i \in DOMAIN timeLineGroups :
        \A k \in DOMAIN timeLineGroups[i].items :
            LET start == StartOf(timeLineGroups[i].items[k])
            IN  start /= Null =>
                  getLocalISODateString(start.t, tzOffset) = timeLineGroups[i].date

----------------------------------------------------------------------------
(* C17 *)

\* C17: while several calls are suspended, the one whose response arrives when
\* neither of its arguments exceeds loadedRange leaves the stored groups and
\* loadedRange unchanged, in whatever order the responses arrive.
C17_StaleResponseDiscarded ==
    [][ \A call \in inflight :
          ( /\ Cardinality(inflight) >= 2
            /\ inflight' = inflight \ {call}
            /\ call.before <= loadedRange.before
            /\ call.after <= loadedRange.after )
          => UNCHANGED <<timeLineGroups, loadedRange>> ]_vars

\* A call that would have advanced the past side when it was issued settled, with a
\* response holding events, after another call had advanced it, a third call still
\* being suspended
C17_Witness ==
    /\ Stale(lastSettle)
    /\ ~lastSettle.alone
    /\ lastSettle.call.before > lastSettle.seen.before
    /\ IsArrayReply(lastReply)
    /\ lastReply.events /= <<>>

----------------------------------------------------------------------------
(* C20 *)

\* C20: the stored state is at every moment what running the settled merges one
\* after the other, in the order their responses resolved, gives; and every change
\* of the stored groups or of loadedRange is the whole merge of one suspended call.
C20_MergesRunInTurn ==
    /\ [](timeLineGroups = serial.groups /\ loadedRange = serial.range)
    /\ [][ <<timeLineGroups, loadedRange>>' /= <<timeLineGroups, loadedRange>>
             => \E call \in inflight : inflight' = inflight \ {call} ]_vars

\* A call issued while another was suspended merged after it: the past side, which
\* it would have advanced when issued, had been advanced by the other call, and it
\* advanced the future side alone
C20_Witness ==
    /\ lastSettle.call.before > lastSettle.seen.before
    /\ lastSettle.call.before <= lastSettle.met.before
    /\ lastSettle.call.after > lastSettle.met.after
    /\ IsArrayReply(lastReply)
    /\ lastReply.events /= <<>>
    /\ loadedRange = Range(6, 7)

----------------------------------------------------------------------------
(* C18 *)

\* The 0-based index, in a list of groups, of the first group dated today; without
\* one, of the first group dated today or later; without one, 0
AnchorIndexOf(groups) ==
    LET todays  == {i \in DOMAIN groups : groups[i].date = TodayKey}
        onOrAfter == {i \in DOMAIN groups : ~KeyLess(groups[i].date, TodayKey)}
    IN  IF todays /= {} THEN (CHOOSE i \in todays : \A j \in todays : i <= j) - 1
        ELSE IF onOrAfter /= {}
        THEN (CHOOSE i \in onOrAfter : \A j \in onOrAfter : i <= j) - 1
        ELSE 0

\* C18: before any scroll the anchor index is the index of the group dated today,
\* else of the first group dated today or later, else 0; and without groups the
\* visible slice is empty.
C18_AnchorIndex ==
    ~userScrolled =>
        /\ BaseIndex = AnchorIndexOf(timeLineGroups)
        /\ timeLineGroups = <<>> => displayedGroups = <<>>

\* No group is dated today and the first group dated later is not the first group
C18_Witness ==
    /\ ~userScrolled
    /\ \A i \in DOMAIN timeLineGroups : timeLineGroups[i].date /= TodayKey
    /\ BaseIndex >= 1

----------------------------------------------------------------------------
(* C21 *)

\* The start instant of an item of a card, Null when its dtstart gives none
StartInstant(item) == parseUTCDateTime(item.dtstart)

\* C21: of two sorted items whose start instants are valid and differ, the earlier
\* one comes first, whatever their ids and episodes.
C21_EarlierFirst ==
    rendered.outcome = "ok" =>
        \A i, j \in DOMAIN rendered.value :
            LET a == StartInstant(rendered.value[i])
                b == StartInstant(rendered.value[j])
            IN  (i < j /\ a /= Null /\ b /= Null /\ a /= b) => a.t < b.t

\* A card given a late item, an earlier item with a larger id and a still earlier
\* item, sorted into the reverse order
C21_Witness ==
    /\ cardItems = <<Ev0531Late, EvId10, Ev0528>>
    /\ rendered = [outcome |-> "ok", value |-> <<Ev0528, EvId10, Ev0531Late>>]

----------------------------------------------------------------------------
(* C22 *)

\* The decimal text of a natural number
RECURSIVE TextOf(_)
TextOf(n) ==
    LET digit == CHOOSE c \in DigitChars : DigitVal(c) = n % 10
    IN  IF n < 10 THEN <<digit>> ELSE Append(TextOf(n \div 10), digit)

\* Ascending comparison of texts, character by character
TextLess(s, t) ==
    \E k \in 1..(Len(t)) :
        /\ \A i \in 1..(k - 1) : i <= Len(s) /\ s[i] = t[i]
        /\ \/ k = Len(s) + 1
           \/ k <= Len(s) /\ DigitVal(s[k]) < DigitVal(t[k])

\* Two items that start at one instant and belong to different subscriptions
TiedOnStart(a, b) ==
    /\ StartInstant(a) /= Null
    /\ StartInstant(a) = StartInstant(b)
    /\ a.id /= b.id

\* C22, as stated: two sorted items with equal start instants and different ids are
\* in ascending order of their ids compared as strings.
C22_IdStringOrder ==
    rendered.outcome = "ok" =>
        \A i, j \in DOMAIN rendered.value :
            (i < j /\ TiedOnStart(rendered.value[i], rendered.value[j]))
              => TextLess(TextOf(rendered.value[i].id), TextOf(rendered.value[j].id))

\* C22, amended: two sorted items with equal start instants and different ids are in
\* ascending order of their ids compared as numbers.
C22_IdNumberOrder ==
    rendered.outcome = "ok" =>
        \A i, j \in DOMAIN rendered.value :
            (i < j /\ TiedOnStart(rendered.value[i], rendered.value[j]))
              => rendered.value[i].id < rendered.value[j].id

\* Subscriptions 10 and 6 at one instant, given in that order: 6 is sorted first
C22_Witness ==
    /\ cardItems = <<EvId10, Ev0531>>
    /\ rendered = [outcome |-> "ok", value |-> <<Ev0531, EvId10>>]

----------------------------------------------------------------------------
(* C23 *)

\* The comparator finds no instant in the item's dtstart
NonComparable(item) == DateParse(formatDateString(item.dtstart.s)) = NaN

\* C23: a sorted item without a comparable instant precedes no item with one, and
\* two such items are in the order the card was given them in.
C23_NonComparableLastInOrder ==
    rendered.outcome = "ok" =>
        \A i, j \in DOMAIN rendered.value :
            LET a == rendered.value[i]
                b == rendered.value[j]
            IN  (i < j /\ NonComparable(a)) =>
                  /\ NonComparable(b)
                  /\ PlaceIn(cardItems, a) < PlaceIn(cardItems, b)

----------------------------------------------------------------------------
(* C24 *)

\* The preview of the card last rendered
Preview == uniqueEvents(rendered.value)

\* The ids of the items before place k of a list
IdsBefore(list, k) == {list[i].id : i \in 1..(k - 1)}

\* C24: the preview holds at most four items, no two with one id, in sorted order;
\* an item of the sorted list is in it exactly when no earlier item carries its id
\* and fewer than four ids come before it.
C24_FirstFourDistinct ==
    rendered.outcome = "ok" =>
        LET sorted == rendered.value
        IN  /\ Len(Preview) <= 4
            /\ \A i, j \in DOMAIN Preview : i /= j => Preview[i].id /= Preview[j].id
            /\ \A k \in DOMAIN sorted :
                  (\E i \in DOMAIN Preview : Preview[i] = sorted[k])
                    <=> ( /\ sorted[k].id \notin IdsBefore(sorted, k)
                          /\ Cardinality(IdsBefore(sorted, k)) < 4 )
            /\ \A i, j \in DOMAIN Preview :
                  i < j => PlaceIn(sorted, Preview[i]) < PlaceIn(sorted, Preview[j])

\* The long card, with six subscriptions and several items of one, rendered
C24_Witness ==
    /\ cardItems = LongCard
    /\ rendered.outcome = "ok"
    /\ Len(Preview) = 4
    /\ Cardinality(IdsBefore(rendered.value, Len(rendered.value) + 1)) = 6

----------------------------------------------------------------------------
(* C25 *)

\* The events of a response, those whose dtend is not in the fixed format given an
\* end that is
WithValidEnds(events) ==
    [k \in DOMAIN events |->
        IF FixedFormat(events[k].dtend) THEN events[k]
        ELSE [events[k] EXCEPT !.dtend = Str(Stamp0601Late)]]

\* The groups without the ends of their items: dates, and per item id, episode, start
WithoutEnds(groups) ==
    [i \in DOMAIN groups |->
        [date  |-> groups[i].date,
         items |-> [k \in DOMAIN groups[i].items |->
                      <<groups[i].items[k].id, groups[i].items[k].episode,
                        groups[i].items[k].dtstart>>]]]

\* C25: an event of the merged response whose dtstart is in the fixed format and
\* whose dtend is not is in the group of its dtstart's local date, holding no end
\* instant; and the groups, ends apart, are those the response would have given had
\* every dtend been valid.
C25_BadEndStillGrouped ==
    IsArrayReply(lastReply) =>
        /\ \A k \in DOMAIN lastReply.events :
              LET event == lastReply.events[k]
              IN  (FixedFormat(event.dtstart) /\ ~FixedFormat(event.dtend)) =>
                    \E i \in DOMAIN timeLineGroups :
                       /\ timeLineGroups[i].date =
                             getLocalISODateString(parseUTCDateTime(event.dtstart).t,
                                                   tzOffset)
                       /\ \E j \in DOMAIN timeLineGroups[i].items :
                             LET item == timeLineGroups[i].items[j]
                             IN  /\ item.id = event.id
                                 /\ item.episode = event.episode
                                 /\ item.dtstart = parseUTCDateTime(event.dtstart)
                                 /\ item.dtend.kind /= "Date"
        /\ WithoutEnds(timeLineGroups) =
              WithoutEnds(fetchTimeLineGroups(<<>>, Range(0, 0), 4, 5,
                                              ArrayReply(WithValidEnds(lastReply.events)),
                                              tzOffset).groups)

\* Episode 1, whose dtend is "2025-06-03", stored after episode 3 in one group
C25_Witness ==
    \E i \in DOMAIN timeLineGroups :
        /\ Len(timeLineGroups[i].items) >= 2
        /\ \E j \in DOMAIN timeLineGroups[i].items :
              /\ timeLineGroups[i].items[j].episode = Num(1)
              /\ timeLineGroups[i].items[j].dtend = Str(StampDateOnly)

----------------------------------------------------------------------------
(* C26 *)

\* C26: when the merged response holds no event whose dtstart is in the fixed
\* format, the call runs to its end (the thresholds are recorded, loading is
\* cleared), the stored list is empty and the visible slice is empty.
C26_EmptyResultIsNoError ==
    ( /\ IsArrayReply(lastReply)
      /\ \A k \in DOMAIN lastReply.events : ~FixedFormat(lastReply.events[k].dtstart) )
    => /\ completed = Range(4, 5)
       /\ loadedRange = Range(4, 5)
       /\ ~loading
       /\ timeLineGroups = <<>>
       /\ displayedGroups = <<>>

\* The response held three events and none of them parsable
C26_Witness ==
    /\ lastReply = ArrayReply(<<EvMalformed, EvSuffixed, EvNoStart>>)
    /\ timeLineGroups = <<>>
    /\ ~loading

----------------------------------------------------------------------------
(* C27 *)

\* C27: sorting the items of a group the loader produced never raises an error.
C27_SortSucceeds == rendered.outcome /= "raised"

----------------------------------------------------------------------------
(* C28 *)

DateSeq(groups) == [i \in DOMAIN groups |-> groups[i].date]

\* The stored range and the de-duplicated dates once the suspended calls first and
\* second have both settled, first before second, at the present clock
ResolveBoth(first, second) ==
    LET one == fetchTimeLineGroups(timeLineGroups, loadedRange, first.before,
                                   first.after, WindowReply(backend, first, now),
                                   tzOffset)
        two == fetchTimeLineGroups(one.groups, one.range, second.before,
                                   second.after, WindowReply(backend, second, now),
                                   tzOffset)
    IN  [range |-> two.range, dates |-> DateSeq(getUniqueGroups(two.groups))]

\* C28: whenever two widen calls are in flight at once, over fixed backing data and
\* a fixed today, settling them in either order ends in the same loaded range and
\* the same de-duplicated sequence of group dates.
C28_OrderOfResolution ==
    \A a, b \in inflight :
        (a /= b /\ ~a.mount /\ ~b.mount) => ResolveBoth(a, b) = ResolveBoth(b, a)

\* (6,6) settled last, issued at range (4,5) and meeting the range (6,5): both calls
\* were in flight at once and both advanced a threshold
C28_Witness ==
    /\ inflight = {}
    /\ lastSettle.call = WidenCall(6, 6)
    /\ lastSettle.seen = Range(4, 5)
    /\ lastSettle.met = Range(6, 5)
    /\ lastReply = WindowReply(backend, WidenCall(6, 6), now)
    /\ loadedRange = Range(6, 6)
    /\ Len(UniqueGroups) > Len(BatchOf(lastReply.events, tzOffset))

----------------------------------------------------------------------------
(* C29 *)

\* C29: while the viewport has not been scrolled, the visible slice is a contiguous
\* run of the de-duplicated group list and holds at most 7 groups, whatever calls have
\* settled and whatever the day is.
C29_AnchoredSlice ==
    ~userScrolled =>
        /\ Len(displayedGroups) <= 7
        /\ \E first \in 1..(Len(UniqueGroups) + 1) :
              displayedGroups =
                  SubSeq(UniqueGroups, first, first + Len(displayedGroups) - 1)

\* More dates are loaded than the slice shows, the day has changed since the mount
C29_Witness ==
    /\ ~userScrolled
    /\ loadedRange = Range(6, 6)
    /\ now > Now0
    /\ Len(UniqueGroups) >= 9
    /\ Len(displayedGroups) = 7

----------------------------------------------------------------------------
(* C30 *)

\* C30: loading is true from the creation of the widget until the mount call (4,5)
\* settles and false from then on, whether the fetch succeeded or failed; the only
\* step that changes it is the settle of the mount call, which clears it, so it never
\* returns to true and no widen call changes it.
C30_LoadingClearedOnce ==
    /\ [](loading <=> MountCall \notin SettledCalls)
    /\ [][loading' /= loading =>
            /\ loading /\ ~loading'
            /\ MountCall \in inflight /\ MountCall \notin inflight']_vars

\* The mount call failed, and a widen call issued after it has merged its batch
C30_Witness ==
    /\ ~loading
    /\ MountCall \in SettledCalls
    /\ WidenCall(2, 3) \in SettledCalls
    /\ loadedRange = Range(2, 3)
    /\ timeLineGroups /= <<>>

====
